---- MODULE Spec2Model ----
(***************************************************************************)
(* Route-finder backend (latest revision, src/unnamed/part_000): an        *)
(* Express application over one PostgreSQL table, booklist, reached        *)
(* through a pg connection pool, and the classify2_api client.             *)
(*                                                                         *)
(* A request runs in steps that end where the handler awaits: the          *)
(* classifier's callback, pool.connect(), client.query().  A statement     *)
(* takes effect on the table in the step in which its promise settles and  *)
(* the handler runs on to its next await or to its end.                    *)
(***************************************************************************)
EXTENDS Integers, FiniteSets, Sequences, TLC

\* ------------------------------------------------------------------ bounds

\* Requests the server handles at the same time.
NumSlots == 2

\* Connections the pool hands out before pool.connect() waits (pg's default
\* is 10; new Pool() sets no max).
PoolMax == 3

\* --------------------------------------------------------------- values

\* JavaScript undefined / null, SQL NULL, a missing field.
NULL == "<null>"

Slots == 1..NumSlots

Users == {"u1", "u2"}

\* What a client may send as the isbn field.
IsbnInputs == {"0380807343", "9780380807345", "1234", ""}

\* The strings the isbn library accepts, with their ISBN-13 form.
IsbnTable ==
  [i \in {"0380807343", "9780380807345"} |->
     CASE i = "0380807343" -> "9780380807345"
       [] i = "9780380807345" -> "9780380807345"]

\* ISBN.parse(x) followed by asIsbn13(): NULL when parse returns null.
ParseIsbn(x) == IF x \in DOMAIN IsbnTable THEN IsbnTable[x] ELSE NULL

\* if (v): false for undefined and for the empty string.
Truthy(v) == v \notin {NULL, ""}

\* type book
Book(isbn, title, author, call_no, username) ==
  [isbn |-> isbn, title |-> title, author |-> author,
   call_no |-> call_no, username |-> username]

\* let item = {isbn: ..., title: "", author: "", call_no: "", username: ...}
NewItem(isbn, username) == Book(isbn, "", "", "", username)

\* What classify2_api hands to the callback: a record with title, author
\* and congress, each possibly missing, or no object at all (nil).
Payload(nil, title, author, congress) ==
  [nil |-> nil, title |-> title, author |-> author, congress |-> congress]

\* A match, no match with every field empty, an error object without the
\* fields, and nothing.
Payloads ==
  { Payload(FALSE, "Dune", "Herbert, Frank|Translator", "PS3558"),
    Payload(FALSE, "", "", ""),
    Payload(FALSE, NULL, NULL, NULL),
    Payload(TRUE, NULL, NULL, NULL) }

\* Also an object that has an author and no title.
AllPayloads == Payloads \cup {Payload(FALSE, NULL, "Herbert, Frank", "PS3558")}

\* data.author.split("|")[0]
FirstAuthor(a) == IF a = "Herbert, Frank|Translator" THEN "Herbert, Frank" ELSE a

\* data.title / data.author.split(...) throw a TypeError.
CallbackThrows(data) == data.nil \/ data.author = NULL

\* item.title != ""  (loose inequality: undefined != "" is true)
TitleAccepted(title) == title # ""

\* ----------------------------------------------------------- the table

\* Mutant: the table has no primary key.
NoPrimaryKey(table, row) == TRUE

\* isbn VARCHAR(16) PRIMARY KEY
PrimaryKeyFree(table, row) == \A r \in table : r.isbn # row.isbn

\* Mutant: an insert that replaces the row of the same isbn (an upsert).
InsertOrReplace(table, row) == {r \in table : r.isbn # row.isbn} \cup {row}

\* INSERT INTO booklist(...) VALUES(...): fails on a duplicate key.
Insert(table, row) == IF PrimaryKeyFree(table, row) THEN table \cup {row} ELSE table

\* Mutant: a SELECT without its WHERE clause.
SelectEveryRow(table, u) == table

\* SELECT * FROM booklist WHERE username = $1  (never true for NULL)
SelectByUsername(table, u) ==
  IF u = NULL THEN {} ELSE {r \in table : r.username = u}

\* Mutant: a DELETE without its WHERE clause.
DeleteEveryRow(table, u) == {}

\* DELETE FROM booklist WHERE username = $1
DeleteByUsername(table, u) ==
  IF u = NULL THEN table ELSE {r \in table : r.username # u}

\* The orders in which a SELECT without ORDER BY may return rows: any.
RowOrders(rows) ==
  IF rows = {} THEN {<<>>}
  ELSE {q \in [1..Cardinality(rows) -> rows] : \A r \in rows : \E i \in DOMAIN q : q[i] = r}

\* Tables a previous run of the server may have left behind.
InitTables ==
  { {},
    {Book("9780380807345", "Dune", "Herbert, Frank", "PS3558", "u1"),
     Book("", "Dune", "Herbert, Frank", "PS3558", "u2")} }

\* ------------------------------------------------------------- state

VARIABLES
  booklist,    \* the rows of table booklist
  checkedOut,  \* connections taken from the pool and not released
  req,         \* per slot: the request being handled
  last,        \* how the request that ended in the last step ended
  bpc,         \* where build_db() is
  alive        \* the process is running

vars == <<booklist, checkedOut, req, last, bpc, alive>>

\* A slot that handles no request.
Idle ==
  [kind |-> "none", branch |-> "none", pc |-> "idle",
   item |-> NewItem("", NULL), name |-> NULL, client |-> FALSE]

\* A request that has just entered its handler.
Started(kind, branch, name) ==
  [Idle EXCEPT !.kind = kind, !.branch = branch, !.name = name, !.pc = "run"]

\* No request ended in the last step.
NoOutcome ==
  [kind |-> "none", branch |-> "none", name |-> NULL, end |-> "none",
   nresp |-> 0, code |-> 0, body |-> "none", book |-> NewItem("", NULL),
   rows |-> {}, list |-> <<>>, leaked |-> FALSE]

\* The end of request r: how its handler ended, the responses it sent
\* (res.json, res.render and res.send answer 200), the book or the rows
\* the response carries (list: the rows in the order a page renders
\* them), and whether the request still holds its client.
Outcome(r, end, nresp, body, book, rows) ==
  [kind |-> r.kind, branch |-> r.branch, name |-> r.name,
   end |-> end, nresp |-> nresp, code |-> IF nresp > 0 THEN 200 ELSE 0,
   body |-> body, book |-> book, rows |-> rows, list |-> <<>>,
   leaked |-> r.client]

\* The handler sent one response and returned.
Answered(r, body) == Outcome(r, "returned", 1, body, NewItem("", NULL), {})

\* The handler sent one response carrying r's item and returned.
AnsweredBook(r, body) == Outcome(r, "returned", 1, body, r.item, {})

\* The handler sent one response carrying rows and returned.
AnsweredRows(r, body, rows) == Outcome(r, "returned", 1, body, NewItem("", NULL), rows)

\* The handler returned and sent nothing.
Silent(r) == Outcome(r, "returned", 0, "none", NewItem("", NULL), {})

\* The async function's promise was rejected, nobody handles it, and
\* nothing was sent.
Thrown(r) == Outcome(r, "rejected", 0, "none", NewItem("", NULL), {})

Free(s) == req[s].pc = "idle"

Init ==
  /\ booklist \in InitTables
  /\ checkedOut = 0
  /\ req = [s \in Slots |-> Idle]
  /\ last = NoOutcome
  /\ bpc = "connect"
  /\ alive = TRUE

\* Request s goes on to its next await.
Continue(s, r) ==
  /\ req' = [req EXCEPT ![s] = r]
  /\ last' = NoOutcome

\* Request s ends.
End(s, outcome) ==
  /\ req' = [req EXCEPT ![s] = Idle]
  /\ last' = outcome

\* An unhandled rejection in request s: a warning on Node 14; from Node 15
\* on the process ends (package.json: node >= 14.x), and its requests and
\* its pool end with it.
Unhandled(s, exits) ==
  /\ alive' = ~exits
  /\ last' = Thrown(req[s])
  /\ req' = IF exits THEN [t \in Slots |-> Idle] ELSE [req EXCEPT ![s] = Idle]
  /\ checkedOut' = IF exits THEN 0 ELSE checkedOut

\* pool.connect() resolves: a client is taken from the pool.
Acquire == checkedOut < PoolMax /\ checkedOut' = checkedOut + 1

\* The client a request holds at its end: released when the handler called
\* client.release(), checked out for good otherwise.
Settle(outcome) == checkedOut' = IF outcome.leaked THEN checkedOut ELSE checkedOut - 1

\* ------------------------------------------------------------ build_db

\* const client = await pool.connect();  (outside the try: a failure
\* rejects build_db(), and nobody handles it)
BuildDbConnect(ok, exits) ==
  /\ alive /\ bpc = "connect"
  /\ IF ok
       THEN Acquire /\ bpc' = "query" /\ alive' = alive /\ req' = req
       ELSE /\ bpc' = "rejected"
            /\ alive' = ~exits
            /\ req' = IF exits THEN [t \in Slots |-> Idle] ELSE req
            /\ checkedOut' = IF exits THEN 0 ELSE checkedOut
  /\ last' = NoOutcome
  /\ UNCHANGED booklist

\* try { await client.query(text, values) } catch (err) { ... }: the
\* statement passes the column definitions as parameters and fails; the
\* error is caught, the client is kept.
BuildDbQuery ==
  /\ alive /\ bpc = "query"
  /\ bpc' = "done"
  /\ last' = NoOutcome
  /\ UNCHANGED <<booklist, checkedOut, req, alive>>

\* ------------------------------------------------- pages and greeting

\* app.get('/')
GetIndex(s) ==
  /\ alive /\ Free(s)
  /\ End(s, Answered(Started("GET /", "none", NULL), "page: index"))
  /\ UNCHANGED <<booklist, checkedOut, bpc, alive>>

\* app.get('/add')
GetAdd(s) ==
  /\ alive /\ Free(s)
  /\ End(s, Answered(Started("GET /add", "none", NULL), "page: add"))
  /\ UNCHANGED <<booklist, checkedOut, bpc, alive>>

\* Mutant: a greeting that takes a client from the pool and keeps it.
GetApiThroughPool(s) ==
  /\ alive /\ Free(s) /\ Acquire
  /\ End(s, Answered(Started("GET /api", "none", NULL), "message: Hello from the backend!"))
  /\ UNCHANGED <<booklist, bpc, alive>>

\* app.get('/api')
GetApi(s) ==
  /\ alive /\ Free(s)
  /\ End(s, Answered(Started("GET /api", "none", NULL), "message: Hello from the backend!"))
  /\ UNCHANGED <<booklist, checkedOut, bpc, alive>>

\* ------------------------------------------------------------ POST /add

\* app.post('/add'), up to the call of classify.classify; without an isbn
\* the handler returns and answers nothing
PostAdd(s, isbn, cookie) ==
  /\ alive /\ Free(s)
  /\ LET r == Started("POST /add", "isbn", NULL) IN
     IF ~Truthy(isbn) THEN End(s, Silent(r))
     ELSE IF ParseIsbn(isbn) = NULL THEN End(s, Answered(r, "failure: Invalid ISBN"))
     ELSE Continue(s, [r EXCEPT !.pc = "classify", !.item = NewItem(ParseIsbn(isbn), cookie)])
  /\ UNCHANGED <<booklist, checkedOut, bpc, alive>>

\* The item after item.title = data.title; item.author = ...; item.call_no = ...
Classified(item, data) ==
  [item EXCEPT !.title = data.title, !.author = FirstAuthor(data.author),
               !.call_no = data.congress]

\* the callback of classify.classify in app.post('/add'), up to
\* addToDatabase's pool.connect() or to res.render
AddClassified(s, data, exits) ==
  /\ alive /\ req[s].kind = "POST /add" /\ req[s].pc = "classify"
  /\ IF CallbackThrows(data)
       THEN Unhandled(s, exits)
       ELSE /\ LET r == [req[s] EXCEPT !.item = Classified(req[s].item, data)] IN
               IF TitleAccepted(r.item.title)
                 THEN Continue(s, [r EXCEPT !.pc = "connect"])
                 ELSE End(s, AnsweredBook(r, "result: item"))
            /\ UNCHANGED <<alive, checkedOut>>
  /\ UNCHANGED <<booklist, bpc>>

\* ------------------------------------------------------ POST /api/search

\* app.post('/api/search'), up to the call of classify.classify
PostApiSearch(s, body) ==
  /\ alive /\ Free(s)
  /\ IF Truthy(body.isbn) /\ Truthy(body.name)
       THEN LET r == Started("POST /api/search", "isbn", NULL) IN
            IF ParseIsbn(body.isbn) = NULL
              THEN End(s, Answered(r, "failure: Invalid ISBN"))
              ELSE Continue(s, [r EXCEPT !.pc = "classify",
                                         !.item = NewItem(ParseIsbn(body.isbn), body.name)])
     ELSE IF Truthy(body.title) \/ Truthy(body.author)
       THEN Continue(s, [Started("POST /api/search", "title-author", NULL) EXCEPT
                           !.pc = "classify"])
     ELSE IF Truthy(body.wi) /\ Truthy(body.name)
       THEN Continue(s, [Started("POST /api/search", "wi", NULL) EXCEPT
                           !.pc = "classify", !.item = NewItem("", body.name)])
     ELSE End(s, Answered(Started("POST /api/search", "none", NULL),
                          "failure: No Values Provided"))
  /\ UNCHANGED <<booklist, checkedOut, bpc, alive>>

\* Mutant: addToDatabase(item) called without await, so that res.json runs
\* while the INSERT is still to come.
SearchClassifiedNoAwait(s, data, exits) ==
  /\ alive /\ req[s].kind = "POST /api/search" /\ req[s].pc = "classify"
  /\ req[s].branch \in {"isbn", "wi"}
  /\ IF CallbackThrows(data)
       THEN Unhandled(s, exits)
       ELSE /\ LET r == [req[s] EXCEPT !.item = Classified(req[s].item, data)] IN
               IF TitleAccepted(r.item.title)
                 THEN End(s, AnsweredBook(r, "success: book"))
                 ELSE End(s, Answered(r, "failure: data"))
            /\ UNCHANGED <<alive, checkedOut>>
  /\ UNCHANGED <<booklist, bpc>>

\* the callbacks of classify.classify in the isbn and wi branches, up to
\* addToDatabase's pool.connect() or to res.json
SearchClassified(s, data, exits) ==
  /\ alive /\ req[s].kind = "POST /api/search" /\ req[s].pc = "classify"
  /\ req[s].branch \in {"isbn", "wi"}
  /\ IF CallbackThrows(data)
       THEN Unhandled(s, exits)
       ELSE /\ LET r == [req[s] EXCEPT !.item = Classified(req[s].item, data)] IN
               IF TitleAccepted(r.item.title)
                 THEN Continue(s, [r EXCEPT !.pc = "connect"])
                 ELSE End(s, Answered(r, "failure: data"))
            /\ UNCHANGED <<alive, checkedOut>>
  /\ UNCHANGED <<booklist, bpc>>

\* the callback of the title-author branch: if (data) ... else ...
SearchTitleAuthorClassified(s, data) ==
  /\ alive /\ req[s].kind = "POST /api/search" /\ req[s].pc = "classify"
  /\ req[s].branch = "title-author"
  /\ End(s, Answered(req[s], IF data.nil THEN "failure: data" ELSE "success: results"))
  /\ UNCHANGED <<booklist, checkedOut, bpc, alive>>

\* -------------------------------------------------------- addToDatabase

\* const client = await pool.connect();  (outside the try: a failure
\* rejects addToDatabase and, through the await, the callback)
AddToDatabaseConnect(s, ok, exits) ==
  /\ alive /\ req[s].kind \in {"POST /add", "POST /api/search"} /\ req[s].pc = "connect"
  /\ IF ok
       THEN /\ Acquire
            /\ Continue(s, [req[s] EXCEPT !.pc = "query", !.client = TRUE])
            /\ alive' = alive
       ELSE Unhandled(s, exits)
  /\ UNCHANGED <<booklist, bpc>>

\* What the callback sends once addToDatabase has returned.
AfterInsert(r) ==
  IF r.kind = "POST /add" THEN AnsweredBook(r, "result: item")
                          ELSE AnsweredBook(r, "success: book")

\* try { await client.query(INSERT ...) } catch (err) { ... }, then the
\* rest of the callback; the client is not released
AddToDatabaseQuery(s, dbok) ==
  /\ alive /\ req[s].kind \in {"POST /add", "POST /api/search"} /\ req[s].pc = "query"
  /\ booklist' = IF dbok THEN Insert(booklist, req[s].item) ELSE booklist
  /\ End(s, AfterInsert(req[s]))
  /\ UNCHANGED <<checkedOut, bpc, alive>>

\* ------------------------------------------------------------ GET /route

\* app.get('/route'), up to pool.connect()
GetRoute(s, cookie) ==
  /\ alive /\ Free(s)
  /\ Continue(s, [Started("GET /route", "none", cookie) EXCEPT !.pc = "connect"])
  /\ UNCHANGED <<booklist, checkedOut, bpc, alive>>

\* const client = await pool.connect();  catch: res.send("Error " + err)
RouteConnect(s, ok) ==
  /\ alive /\ req[s].kind = "GET /route" /\ req[s].pc = "connect"
  /\ IF ok
       THEN Acquire /\ Continue(s, [req[s] EXCEPT !.pc = "query", !.client = TRUE])
       ELSE End(s, Answered(req[s], "text: Error")) /\ checkedOut' = checkedOut
  /\ UNCHANGED <<booklist, bpc, alive>>

\* The handler from the query on: res.render of result.rows, in the order
\* the query returned them, client.release(); when the query fails,
\* res.send("Error " + err) and the client is kept.
RouteAnswer(r, dbok, table, order) ==
  IF dbok
    THEN [AnsweredRows([r EXCEPT !.client = FALSE], "page: route",
                       SelectByUsername(table, r.name)) EXCEPT !.list = order]
    ELSE Answered(r, "text: Error")

\* await client.query(SELECT ...), then the rest of the handler
RouteQuery(s, dbok) ==
  /\ alive /\ req[s].kind = "GET /route" /\ req[s].pc = "query"
  /\ \E order \in RowOrders(SelectByUsername(booklist, req[s].name)) :
       LET outcome == RouteAnswer(req[s], dbok, booklist, order) IN
       End(s, outcome) /\ Settle(outcome)
  /\ UNCHANGED <<booklist, bpc, alive>>

\* -------------------------------------------------------- GET /api/books

\* app.get('/api/books'), up to pool.connect()
GetApiBooks(s, name) ==
  /\ alive /\ Free(s)
  /\ Continue(s, [Started("GET /api/books", "none", name) EXCEPT !.pc = "connect"])
  /\ UNCHANGED <<booklist, checkedOut, bpc, alive>>

\* const client = await pool.connect();  catch: res.json({"Error": err})
BooksConnect(s, ok) ==
  /\ alive /\ req[s].kind = "GET /api/books" /\ req[s].pc = "connect"
  /\ IF ok
       THEN Acquire /\ Continue(s, [req[s] EXCEPT !.pc = "query", !.client = TRUE])
       ELSE End(s, Answered(req[s], "Error")) /\ checkedOut' = checkedOut
  /\ UNCHANGED <<booklist, bpc, alive>>

\* The handler from the query on.  req.query.name.length throws for a
\* missing name and the catch answers, as it does when the query fails;
\* client.release() is reached on the other two paths only.
BooksAnswer(r, dbok, table) ==
  IF ~dbok \/ r.name = NULL THEN Answered(r, "Error")
  ELSE IF r.name = ""
    THEN Answered([r EXCEPT !.client = FALSE], "error: No Username Provided")
    ELSE AnsweredRows([r EXCEPT !.client = FALSE], "results",
                      SelectByUsername(table, r.name))

\* await client.query(SELECT ...), then the rest of the handler
BooksQuery(s, dbok) ==
  /\ alive /\ req[s].kind = "GET /api/books" /\ req[s].pc = "query"
  /\ LET outcome == BooksAnswer(req[s], dbok, booklist) IN
     End(s, outcome) /\ Settle(outcome)
  /\ UNCHANGED <<booklist, bpc, alive>>

\* ------------------------------------------------------ POST /api/remove

\* app.post('/api/remove'), up to pool.connect(); without a name the
\* handler returns and answers nothing
PostApiRemove(s, name) ==
  /\ alive /\ Free(s)
  /\ LET r == Started("POST /api/remove", "none", name) IN
     IF Truthy(name) THEN Continue(s, [r EXCEPT !.pc = "connect"]) ELSE End(s, Silent(r))
  /\ UNCHANGED <<booklist, checkedOut, bpc, alive>>

\* const client = await pool.connect();  catch: res.json({"Status": "Failure"})
RemoveConnect(s, ok) ==
  /\ alive /\ req[s].kind = "POST /api/remove" /\ req[s].pc = "connect"
  /\ IF ok
       THEN Acquire /\ Continue(s, [req[s] EXCEPT !.pc = "query", !.client = TRUE])
       ELSE End(s, Answered(req[s], "Status: Failure")) /\ checkedOut' = checkedOut
  /\ UNCHANGED <<booklist, bpc, alive>>

\* await client.query(DELETE ...); res.json({"Status": "Success"});
\* catch: res.json({"Status": "Failure"}); the client is not released
RemoveQuery(s, dbok) ==
  /\ alive /\ req[s].kind = "POST /api/remove" /\ req[s].pc = "query"
  /\ booklist' = IF dbok THEN DeleteByUsername(booklist, req[s].name) ELSE booklist
  /\ End(s, Answered(req[s], IF dbok THEN "Status: Success" ELSE "Status: Failure"))
  /\ UNCHANGED <<checkedOut, bpc, alive>>

\* ------------------------------------------------------- specification

\* What a client may send as name (query or body) and as cookie.
NameInputs == Users \cup {"", NULL}

CookieInputs == {"u1", NULL}

\* A body of POST /api/search.
SearchBody(isbn, name, title, author, wi) ==
  [isbn |-> isbn, name |-> name, title |-> title, author |-> author, wi |-> wi]

\* The bodies a client may send: each accepted combination of fields, and
\* the combinations that lack a field.
SearchBodies ==
  {SearchBody(i, n, NULL, NULL, NULL) : i \in IsbnInputs, n \in Users}
    \cup {SearchBody(NULL, n, NULL, NULL, "1234567") : n \in Users}
    \cup { SearchBody("9780380807345", NULL, NULL, NULL, NULL),
           SearchBody("9780380807345", "", NULL, NULL, NULL),
           SearchBody("9780380807345", NULL, "Dune", NULL, NULL),
           SearchBody("1234", NULL, "Dune", NULL, NULL),
           SearchBody(NULL, NULL, "Dune", NULL, NULL),
           SearchBody(NULL, NULL, "", "Herbert", NULL),
           SearchBody(NULL, NULL, NULL, NULL, "1234567"),
           SearchBody(NULL, "u1", NULL, NULL, NULL),
           SearchBody(NULL, NULL, NULL, NULL, NULL) }

\* One step of the server: requests in the slots S, the classifier
\* answering with a payload of P.
Step(S, P) ==
  \/ \E ok \in BOOLEAN, exits \in BOOLEAN : BuildDbConnect(ok, exits)
  \/ BuildDbQuery
  \/ \E s \in S : GetIndex(s)
  \/ \E s \in S : GetAdd(s)
  \/ \E s \in S : GetApi(s)
  \/ \E s \in S, isbn \in IsbnInputs \cup {NULL}, cookie \in Users :
       PostAdd(s, isbn, cookie)
  \/ \E s \in S, data \in P, exits \in BOOLEAN : AddClassified(s, data, exits)
  \/ \E s \in S, body \in SearchBodies : PostApiSearch(s, body)
  \/ \E s \in S, data \in P, exits \in BOOLEAN : SearchClassified(s, data, exits)
  \/ \E s \in S, data \in P : SearchTitleAuthorClassified(s, data)
  \/ \E s \in S, ok \in BOOLEAN, exits \in BOOLEAN : AddToDatabaseConnect(s, ok, exits)
  \/ \E s \in S, dbok \in BOOLEAN : AddToDatabaseQuery(s, dbok)
  \/ \E s \in S, cookie \in CookieInputs : GetRoute(s, cookie)
  \/ \E s \in S, ok \in BOOLEAN : RouteConnect(s, ok)
  \/ \E s \in S, dbok \in BOOLEAN : RouteQuery(s, dbok)
  \/ \E s \in S, name \in NameInputs : GetApiBooks(s, name)
  \/ \E s \in S, ok \in BOOLEAN : BooksConnect(s, ok)
  \/ \E s \in S, dbok \in BOOLEAN : BooksQuery(s, dbok)
  \/ \E s \in S, name \in NameInputs : PostApiRemove(s, name)
  \/ \E s \in S, ok \in BOOLEAN : RemoveConnect(s, ok)
  \/ \E s \in S, dbok \in BOOLEAN : RemoveQuery(s, dbok)

Next == Step(Slots, Payloads)

Spec == Init /\ [][Next]_vars

\* The server handling one request at a time, the classifier answering with
\* any object.
NextAnyPayload == Step({1}, AllPayloads)

SpecAnyPayload == Init /\ [][NextAnyPayload]_vars

\* A table in which one username has books of two call numbers, the book
\* stored first having the greater one.
RouteTables ==
  { {Book("9780380807345", "Dune", "Herbert, Frank", "PS3558", "u1"),
     Book("", "Emma", "Austen, Jane", "PR4034", "u1")} }

InitRoute ==
  /\ booklist \in RouteTables
  /\ checkedOut = 0
  /\ req = [s \in Slots |-> Idle]
  /\ last = NoOutcome
  /\ bpc = "connect"
  /\ alive = TRUE

\* The server started on such a table, handling one request at a time.
SpecRoute == InitRoute /\ [][NextAnyPayload]_vars

\* The request in flight in a slot of S takes its next step: the classifier
\* calls back, the pool hands out a client it has, the database answers.
Proceeds(S, P) ==
  \/ \E s \in S, data \in P, exits \in BOOLEAN : AddClassified(s, data, exits)
  \/ \E s \in S, data \in P, exits \in BOOLEAN : SearchClassified(s, data, exits)
  \/ \E s \in S, data \in P : SearchTitleAuthorClassified(s, data)
  \/ \E s \in S, exits \in BOOLEAN : AddToDatabaseConnect(s, TRUE, exits)
  \/ \E s \in S, dbok \in BOOLEAN : AddToDatabaseQuery(s, dbok)
  \/ \E s \in S : RouteConnect(s, TRUE)
  \/ \E s \in S, dbok \in BOOLEAN : RouteQuery(s, dbok)
  \/ \E s \in S : BooksConnect(s, TRUE)
  \/ \E s \in S, dbok \in BOOLEAN : BooksQuery(s, dbok)
  \/ \E s \in S : RemoveConnect(s, TRUE)
  \/ \E s \in S, dbok \in BOOLEAN : RemoveQuery(s, dbok)

\* The server handling one request at a time, where the classifier, the
\* pool and the database answer whenever they can: a promise that can
\* settle does settle.  pool.connect() sets no connectionTimeoutMillis, so
\* with every client checked out it waits.
SpecLive ==
  /\ Init /\ [][NextAnyPayload]_vars
  /\ WF_vars(Proceeds({1}, AllPayloads))
  /\ WF_vars(\E exits \in BOOLEAN : BuildDbConnect(TRUE, exits))
  /\ WF_vars(BuildDbQuery)

\* ---------------------------------------------------------- properties

\* The request of slot s ends in this step.
Ends(s) == req[s].pc # "idle" /\ req'[s].pc = "idle" /\ last'.end # "none"

\* The rows of a table with a given isbn.
RowsOf(table, isbn) == {r \in table : r.isbn = isbn}

\* C1: a POST /api/remove with name U that answers Status: Success has
\* deleted every row whose username is U and has left every row of another
\* username present and unchanged.
C1_RemoveDeletesExactlyUser ==
  [][\A s \in Slots :
       (Ends(s) /\ req[s].kind = "POST /api/remove" /\ last'.body = "Status: Success")
         => /\ \A r \in booklist' : r.username # req[s].name
            /\ \A r \in booklist : r.username # req[s].name => r \in booklist'
            /\ booklist' \subseteq booklist]_vars

\* C1 witness: a remove has answered Success, no row of its username is
\* left and a row of another username is.
C1_Witness ==
  /\ last.kind = "POST /api/remove" /\ last.body = "Status: Success"
  /\ \A r \in booklist : r.username # last.name
  /\ \E r \in booklist : r.username \in Users \ {last.name}

\* C2: booklist holds at most one row per isbn, and a step of a POST /add
\* or POST /api/search request changes the number of rows of its isbn by 0
\* or 1 and the number of rows of any other isbn not at all.
C2_OneRowPerIsbn ==
  /\ [](\A r1, r2 \in booklist : r1.isbn = r2.isbn => r1 = r2)
  /\ [][\A s \in Slots :
          (req[s].kind \in {"POST /add", "POST /api/search"} /\ req'[s] # req[s])
            => \A i \in {r.isbn : r \in booklist \cup booklist'} :
                 Cardinality(RowsOf(booklist', i)) - Cardinality(RowsOf(booklist, i))
                   \in (IF i = req[s].item.isbn THEN {0, 1} ELSE {0})]_vars

\* C2 witness: of two concurrent requests for one isbn, one has inserted
\* its row and the other is about to run its INSERT.
C2_Witness ==
  /\ last.body \in {"result: item", "success: book"}
  /\ last.book \in booklist
  /\ \E s \in Slots : req[s].pc = "query" /\ req[s].kind \in {"POST /add", "POST /api/search"}
                      /\ req[s].item.isbn = last.book.isbn

\* C3 (as claimed): every row of booklist has a non-empty title.
C3_RowsHaveTitle == \A r \in booklist : r.title \notin {"", NULL}

\* C4 (as claimed): whenever no request is in flight and build_db has
\* finished, no connection is checked out.
C4_NoConnectionHeldWhenIdle ==
  (bpc \in {"done", "rejected"} /\ \A s \in Slots : req[s].pc = "idle") => checkedOut = 0

\* C5 (as claimed): whenever POST /api/search answers status success with
\* book b, booklist holds row b at that moment.
C5_SuccessBookIsStored ==
  (last.kind = "POST /api/search" /\ last.body = "success: book") => last.book \in booklist

\* C6 (as claimed): GET /api/books without a name sends exactly one
\* response, 200 with an error payload, no exception escapes, and the
\* connection is released.
C6_BooksWithoutNameAnswersAndReleases ==
  (last.kind = "GET /api/books" /\ last.name = NULL)
    => /\ last.end = "returned" /\ last.nresp = 1 /\ last.code = 200
       /\ last.body \in {"Error", "error: No Username Provided"}
       /\ ~last.leaked

\* C7: when GET /api/books?name=X with a non-empty X answers with a results
\* list, the list is exactly the set of rows of booklist whose username is
\* X; it answers with an error payload only when the database fails.
C7_BooksListsExactlyUser ==
  (last.kind = "GET /api/books" /\ Truthy(last.name))
    => \/ /\ last.body = "results"
          /\ \A r \in booklist : r \in last.rows <=> r.username = last.name
          /\ last.rows \subseteq booklist
       \/ last.body = "Error" /\ last.rows = {}

\* C7 witness: the list answered holds a row, and booklist holds a row of
\* another username as well.
C7_Witness ==
  /\ last.kind = "GET /api/books" /\ last.body = "results"
  /\ last.rows # {} /\ last.rows # booklist

\* C8 (as claimed): a POST /api/search that ends in a failure case (an
\* invalid isbn, no accepted combination of fields, a classification
\* without a book) has sent exactly one response of status failure and has
\* written no row.
C8_SearchFailureAnswersOnce ==
  [][\A s \in Slots :
       /\ (Ends(s) /\ req[s].kind = "POST /api/search" /\ req[s].pc = "classify"
             /\ req[s].branch \in {"isbn", "wi"} /\ req'[s].pc = "idle")
            => /\ last'.nresp = 1 /\ last'.body = "failure: data"
               /\ booklist' = booklist
       /\ (req[s].pc = "idle" /\ last'.kind = "POST /api/search" /\ last'.end # "none"
             /\ req' = req)
            => /\ last'.nresp = 1
               /\ last'.body \in {"failure: Invalid ISBN", "failure: No Values Provided"}
               /\ booklist' = booklist]_vars

\* C9 (as claimed): the process keeps running whatever request fails.
C9_ServerKeepsRunning == alive

\* C10: a row is never updated in place: a row that is in booklist before
\* and after a step, by its isbn, is the same row.
C10_NeverUpdatedInPlace ==
  [][\A r1 \in booklist, r2 \in booklist' : r1.isbn = r2.isbn => r1 = r2]_vars

\* C10 witness: a second add of an isbn, by another username, has ended and
\* the stored row is still the first one.
C10_Witness ==
  /\ last.body \in {"result: item", "success: book"}
  /\ last.book.title # ""
  /\ \E r \in booklist : r.isbn = last.book.isbn /\ r.username # last.book.username

\* The values asIsbn13() returns.
Isbn13s == {IsbnTable[i] : i \in DOMAIN IsbnTable}

\* C11 (as claimed): every row that a step of POST /add or of an inserting
\* branch of POST /api/search inserts has an isbn in ISBN-13 form.
C11_InsertedIsbnIsIsbn13 ==
  [][\A r \in booklist' \ booklist : r.isbn \in Isbn13s]_vars

\* C12 (as claimed): GET / and GET /add answer 200; a GET /route without a
\* cookie answers 200 with the list of no username, which is empty, or
\* with a plain-text error; and while the process runs every GET /route
\* without a cookie is answered.
C12_PagesAnswerWithoutCookie ==
  /\ [](last.kind \in {"GET /", "GET /add"} => last.nresp = 1 /\ last.code = 200)
  /\ []((last.kind = "GET /route" /\ last.name = NULL)
          => /\ last.nresp = 1 /\ last.code = 200
             /\ \/ last.body = "page: route" /\ last.rows = {}
                \/ last.body = "text: Error")
  /\ \A s \in Slots :
       (req[s].kind = "GET /route" /\ req[s].name = NULL)
         ~> (\/ last.kind = "GET /route" /\ last.name = NULL /\ last.nresp = 1
             \/ ~alive)

\* C13: a GET /api sends one response, 200 with the greeting, takes no
\* client from the pool and leaves booklist as it is, whatever the table
\* and the pool hold.
C13_GetApiGreetsAndTouchesNothing ==
  [][(last'.kind = "GET /api" /\ last'.end # "none")
       => /\ last'.end = "returned" /\ last'.nresp = 1 /\ last'.code = 200
          /\ last'.body = "message: Hello from the backend!"
          /\ booklist' = booklist
          /\ checkedOut' = checkedOut]_vars

\* C13 witness: GET /api has answered while the table holds rows, every
\* client of the pool is checked out and another request is in flight.
C13_Witness ==
  /\ last.kind = "GET /api" /\ last.nresp = 1
  /\ booklist # {}
  /\ checkedOut = PoolMax
  /\ \E s \in Slots : req[s].pc # "idle"

\* The call numbers of the model, in lexicographic order.
CallNoOrder == <<"", "PR4034", "PS3558">>

\* The place of a call number in that order.
CallNoRank(c) == CHOOSE i \in DOMAIN CallNoOrder : CallNoOrder[i] = c

\* C14 (as claimed): in the list GET /route renders, the call_no of each row
\* is less than or equal to the call_no of the next.
C14_RouteOrderedByCallNo ==
  (last.kind = "GET /route" /\ last.body = "page: route")
    => \A i \in 1..(Len(last.list) - 1) :
         CallNoRank(last.list[i].call_no) <= CallNoRank(last.list[i + 1].call_no)

\* C15 (as claimed): a POST /add or POST /api/search whose isbn field does
\* not parse as an ISBN ends in its first step, before the classifier is
\* called, with exactly one failure response naming the invalid ISBN, no
\* client taken from the pool and booklist unchanged.
C15_InvalidIsbnRejected ==
  [][\A s \in Slots :
       LET Rejected ==
             /\ req'[s].pc = "idle"
             /\ last'.nresp = 1 /\ last'.body = "failure: Invalid ISBN"
             /\ booklist' = booklist /\ checkedOut' = checkedOut
       IN /\ \A isbn \in IsbnInputs, cookie \in Users :
               (ParseIsbn(isbn) = NULL /\ PostAdd(s, isbn, cookie)) => Rejected
          /\ \A body \in SearchBodies :
               (body.isbn # NULL /\ ParseIsbn(body.isbn) = NULL /\ PostApiSearch(s, body))
                 => Rejected]_vars

\* C16: the response of a POST /add or POST /api/search that went on to
\* insert is sent in the step in which the INSERT of addToDatabase settles:
\* up to then the request holds its client and waits for the statement, the
\* response carries the item of that statement, the table is then the one
\* the settled INSERT left (the row added, or no change when it failed),
\* and nothing of the request is pending afterwards.
C16_ResponseAfterInsert ==
  [][\A s \in Slots :
       (/\ Ends(s) /\ req[s].kind \in {"POST /add", "POST /api/search"}
        /\ last'.nresp = 1
        /\ last'.body \in {"success: book", "result: item"}
        /\ last'.book.title # "")
         => /\ req[s].pc = "query" /\ req[s].client
            /\ last'.book = req[s].item
            /\ booklist' \in {booklist, booklist \cup {req[s].item}}
            /\ req'[s] = Idle]_vars

\* C16 witness: POST /add has answered with its item, the row is stored and
\* no request is in flight.
C16_Witness ==
  /\ last.kind = "POST /add" /\ last.body = "result: item"
  /\ last.book.title # "" /\ last.book \in booklist
  /\ \A s \in Slots : Free(s)

\* C17 (as claimed): a request whose handler has finished, by returning or
\* by a rejection, has been sent exactly one response (nothing of the
\* request runs afterwards, so no response can follow).
C17_ExactlyOneResponse == last.end # "none" => last.nresp = 1

\* C18 (as claimed): what a username lists after its add does not depend on
\* the rows of other usernames: when the INSERT of a request of username A
\* is about to run, A's list after it is the list A would have after it
\* had the table held A's rows only.
C18_AddIndependentOfOtherUsers ==
  \A s \in Slots :
    (req[s].pc = "query" /\ req[s].kind \in {"POST /add", "POST /api/search"})
      => LET A == req[s].item.username
             item == req[s].item
         IN SelectByUsername(Insert(booklist, item), A)
              = SelectByUsername(Insert(SelectByUsername(booklist, A), item), A)

====
